---- MODULE Spec2Model ----
(***************************************************************************)
(* Model of the website monitor of b.py: the tracking store (user_data and *)
(* user_data.json), the scheduler's job table (jobs.sqlite), the poll      *)
(* cycle check_single_website with its suspension points, the track and    *)
(* untrack commands, and process crash followed by restart.                *)
(***************************************************************************)
EXTENDS Integers, Sequences, FiniteSets, TLC

(* ------------------------------ bounds -------------------------------- *)
MaxCmds == 2
MaxCrashes == 1
MaxPageChanges == 1
\* Number of distinct jobs that have an invocation in flight at one time.
MaxBusyJobs == 1
\* Number of clock ticks of a timed run.
MaxTicks == 8

(* ------------------------- program constants -------------------------- *)
MAX_FILE_SIZE == 45 * 1024 * 1024
max_instances == 1

(* ------------------------------ universe ------------------------------ *)
Chats == {1, 2}
UrlA == "http://example.com/p3559"
UrlB == "http://example.com/p5369"
Urls == {UrlA, UrlB}
\* The (interval, night) arguments of the track requests of the model.
TrackArgs == {<<30, FALSE>>, <<0, TRUE>>}
\* The (interval, night) arguments of the track requests of the timed runs.
QuietArgs == {<<30, TRUE>>, <<60, TRUE>>, <<30, FALSE>>}

D1 == "http://files/D1.pdf"
D2 == "http://files/D2.png"
About == "http://example.com/about.html"

\* hashlib.md5(url.encode()).hexdigest()[:6]: the two URLs of the model
\* are a real collision of the 24-bit prefix.
Md5Prefix(url) ==
    CASE url = UrlA -> "93de0e"
      [] url = UrlB -> "93de0e"
      [] OTHER -> "000000"

\* str(message.chat.id) / str(user_id)
Str(chat) == ToString(chat)

\* f"{message.chat.id}_{hashlib.md5(url.encode()).hexdigest()[:6]}"
JobId(chat, url) == Str(chat) \o "_" \o Md5Prefix(url)

\* The (chat, url) pairs the commands of the model name: two URLs of one
\* chat, and one URL shared by two chats.
Requests == {<<1, UrlA>>, <<1, UrlB>>, <<2, UrlA>>}

JobIds == {JobId(r[1], r[2]) : r \in Requests}
Targets == {<<Str(r[1]), r[2]>> : r \in Requests}

(* ------------------------------- pages -------------------------------- *)
\* A page body is the sequence of its tags' href/src attributes.
Bodies ==
    << <<D1, About>>,
       <<D1, D2>>,
       <<D2, "", D2>> >>
NBodies == Len(Bodies)

\* hashlib.sha256(response.content).hexdigest()
Sha256(body) ==
    CASE body = Bodies[1] -> "H1"
      [] body = Bodies[2] -> "H2"
      [] body = Bodies[3] -> "H3"
      [] OTHER -> "H0"

\* any(url.lower().endswith(ext) for ext in ALLOWED_EXTS)
AllowedExt(url) == url \in {D1, D2}

\* extract_files: tags without href/src and links outside the allow-list
\* are dropped; order and duplicates are kept.
ExtractFiles(body) ==
    SelectSeq(body, LAMBDA url : url # "" /\ AllowedExt(url))

Range(s) == {s[i] : i \in 1..Len(s)}

Min(S) == CHOOSE x \in S : \A y \in S : x <= y

Put(f, k, v) == [x \in DOMAIN f \cup {k} |-> IF x = k THEN v ELSE f[x]]
Del(f, k) == [x \in DOMAIN f \ {k} |-> f[x]]

(* ------------------------------- state -------------------------------- *)
VARIABLES
    user_data,      \* in-memory store: <<str(chat), url>> -> tracked record
    disk,           \* user_data.json
    jobs,           \* scheduler job table (jobs.sqlite): job id -> job
    tasks,          \* check_single_website invocations in flight
    page,           \* url -> index of the body the site serves now
    last,           \* the operation that produced this state
    sentSince,      \* files delivered per target since its registration
                    \* or its page last changed
    crashedAfter,   \* of those, the ones delivered before a crash
    onlyTracks,     \* every command so far was a successful track
    cmds, crashes, changes,
    now,            \* the wall clock, in minutes since midnight of day 0
    timers,         \* job id -> start_date and next_run_time of its trigger
    ranAt           \* job id -> the time of the last poll the job ran

vars == <<user_data, disk, jobs, tasks, page, last, sentSince, crashedAfter,
          onlyTracks, cmds, crashes, changes, now, timers, ranAt>>
tvars == <<now, timers, ranAt>>

(* ------------------------- persistence helpers ------------------------ *)
\* save_json: open(file, 'w') + json.dump: the file holds the whole dict.
SaveJson(data) == [state |-> "ok", data |-> data]

\* What a crash between open(file, 'w') and the end of json.dump leaves.
TornFile == [state |-> "corrupt", data |-> <<>>]

\* load_json: a missing or undecodable user_data.json loads as {}.
LoadJson(file) == IF file.state = "ok" THEN file.data ELSE <<>>

\* The ways a save_json call can end: written; an exception from open()
\* with the file untouched; an exception from the write after open(.., 'w')
\* has truncated the file; the process killed in the middle of the write.
SaveOutcomes == {"ok", "raise", "raise_torn", "torn"}

\* user_data.json after a save_json(data, ...) call that returned or raised.
FileAfterSave(so, data) ==
    CASE so = "ok" -> SaveJson(data)
      [] so = "raise" -> disk
      [] so = "raise_torn" -> TornFile

(* ----------------------------- file fetch ----------------------------- *)
\* download_file: TRUE when it returns a filename, FALSE when it returns
\* None. A response is the status, the Content-Length header (0 when
\* absent), the number of bytes the body has, and whether the session and
\* the file write go through without an exception.
DownloadFile(response) ==
    IF ~response.io_ok THEN FALSE
    ELSE IF response.status # 200 THEN FALSE
    ELSE IF response.content_length > MAX_FILE_SIZE THEN FALSE
    ELSE IF response.size > MAX_FILE_SIZE THEN FALSE
    ELSE TRUE

Responses ==
    { [status |-> 200, content_length |-> 0, size |-> MAX_FILE_SIZE,
       io_ok |-> TRUE],
      [status |-> 200, content_length |-> MAX_FILE_SIZE + 1,
       size |-> MAX_FILE_SIZE + 1, io_ok |-> TRUE],
      [status |-> 200, content_length |-> 0, size |-> MAX_FILE_SIZE + 1,
       io_ok |-> TRUE],
      [status |-> 404, content_length |-> 0, size |-> 0, io_ok |-> TRUE],
      [status |-> 200, content_length |-> 0, size |-> 0, io_ok |-> FALSE] }

(* ----------------------------- page fetch ----------------------------- *)
\* What requests.get(url) can meet: an answer with a status, or a network
\* error or timeout before any answer.
PageResponses ==
    { [net_ok |-> TRUE, status |-> 200],
      [net_ok |-> TRUE, status |-> 404],
      [net_ok |-> FALSE, status |-> 0] }

\* requests.get raises on a network error; response.raise_for_status()
\* raises on a 4xx or 5xx status (lines 151-152).
FetchRaisesNetworkOnly(response) == ~response.net_ok
FetchRaises(response) == ~response.net_ok \/ response.status >= 400

\* response.content: the page the site serves now, or the body of an error
\* answer, which carries no links.
ResponseBody(response, url) ==
    IF response.status = 200 THEN Bodies[page[url]] ELSE <<>>

(* ----------------------------- poll cycle ----------------------------- *)
\* Whether the save_json call of line 168 ends in an exception.
SaveRaisesNever(so) == FALSE
SaveRaises(so) == so \in {"raise", "raise_torn"}

\* current_hash == tracked['hash'] -> return
HasChangedAlways(stored, current) == TRUE
HasChanged(stored, current) == current # stored

\* tracked['hash'] = current_hash; tracked['files'] = [f['url'] ...]
PollUpdate(tracked, current_hash, new_files) ==
    [tracked EXCEPT !.hash = current_hash, !.files = new_files]

\* The dict save_json writes at line 168: user_data as it is after lines
\* 166-167 have updated tracked in place.
DataSavedBeforeUpdate(before, after) == before
DataSavedByPoll(before, after) == after

\* for file in new_files: if file['url'] not in previous_files: the index
\* of the next file the loop downloads, from position i on.
NextNew(new_files, previous_files, i) ==
    LET cand == {j \in i..Len(new_files) :
                    new_files[j] \notin Range(previous_files)}
    IN IF cand = {} THEN Len(new_files) + 1 ELSE Min(cand)

\* job_defaults max_instances: the executor runs a fire only while fewer
\* than max_instances invocations of that job id are in flight.
Instances(id) == Cardinality({k \in 1..Len(tasks) : tasks[k].id = id})
BusyJobs == {tasks[k].id : k \in 1..Len(tasks)}
CanSubmitTwo(id) == Instances(id) < max_instances + 1
CanSubmit(id) == Instances(id) < max_instances

NoCycle == <<>>
Cyc(task) ==
    << [chat |-> task.chat, url |-> task.url, hash |-> task.hash,
        previous |-> task.previous, new_files |-> task.new_files,
        summary |-> task.summary, stale |-> task.stale,
        failed |-> task.failed] >>

\* The loop of lines 172-178 resumed after file i: the task at its next
\* suspension point, or <<>> when the coroutine returns.
Continue(task) ==
    LET j == NextNew(task.new_files, task.previous, task.i + 1)
    IN IF j <= Len(task.new_files)
       THEN << [task EXCEPT !.i = j, !.pc = "download"] >>
       ELSE IF task.summary # <<>>
            THEN << [task EXCEPT !.i = j, !.pc = "summary"] >>
            ELSE <<>>

TKey(chat, url) == <<Str(chat), url>>

MarkStale(ts, t) ==
    [k \in 1..Len(ts) |->
        IF TKey(ts[k].chat, ts[k].url) = t
        THEN [ts[k] EXCEPT !.stale = TRUE] ELSE ts[k]]

\* Files of in-flight cycles that are new and not yet delivered.
Undelivered(ts) ==
    UNION {{<<TKey(ts[k].chat, ts[k].url), ts[k].new_files[j]>> :
              j \in {y \in ts[k].i..Len(ts[k].new_files) :
                        /\ ts[k].new_files[y] \notin Range(ts[k].previous)
                        /\ ts[k].new_files[y] \notin Range(ts[k].summary)}} :
           k \in {x \in 1..Len(ts) : ~ts[x].stale /\ ts[x].pc # "summary"}}

NoFiles == [t \in Targets |-> {}]

(* ------------------------------ triggers ------------------------------ *)
\* The clock of a timed run starts at 21:00 and moves in quarter hours.
StartOfRun == 21 * 60
TickMinutes == 60 \div 4
Times == {StartOfRun + k * TickMinutes : k \in 0..MaxTicks}
NoFire == 0 - 1

Hour(t) == (t \div 60) % 24
Minute(t) == t % 60

\* IntervalTrigger(minutes=interval): fires at start_date and every interval
\* after it; the trigger turns an interval of 0 into one second, so every
\* minute is a fire time.
IntervalFires(start_date, interval, t) ==
    /\ t >= start_date
    /\ (interval < 1 \/ (t - start_date) % interval = 0)

\* CronTrigger(hour='6-22'): the fields below the hour take their minimum,
\* so the trigger fires at hh:00:00 for hh in 6..22.
CronHours == 6..22
CronFires(t) == Hour(t) \in CronHours /\ Minute(t) = 0

\* trigger of lines 209-211: the interval trigger, and with night_mode the
\* AndTrigger, which fires at the times both of its triggers fire.
TriggerFires(start_date, interval, night_mode, t) ==
    /\ IntervalFires(start_date, interval, t)
    /\ (night_mode => CronFires(t))

\* trigger.get_next_fire_time: the earliest fire time from 'from' on, NoFire
\* when the run has none.
NextFireTime(start_date, interval, night_mode, from) ==
    LET c == {t \in Times : /\ t >= from
                            /\ TriggerFires(start_date, interval,
                                            night_mode, t)}
    IN IF c = {} THEN NoFire ELSE Min(c)

\* scheduler.add_job at time 'at': start_date defaults to at + interval,
\* next_run_time is the trigger's first fire time.
AddJob(interval, night_mode, at) ==
    [start_date |-> at + interval,
     next_run_time |-> NextFireTime(at + interval, interval, night_mode, at)]

\* The job's timer after a run at time 'at'.
AfterRun(timer, job, at) ==
    [timer EXCEPT !.next_run_time =
        NextFireTime(timer.start_date, job.interval, job.night_mode, at + 1)]

Due(id) == id \in DOMAIN timers /\ timers[id].next_run_time = now

(* ------------------------------- Init --------------------------------- *)
\* Module load: no user_data.json yet, empty job store, nothing running.
Init ==
    /\ disk = [state |-> "missing", data |-> <<>>]
    /\ user_data = LoadJson([state |-> "missing", data |-> <<>>])
    /\ jobs = <<>>
    /\ tasks = <<>>
    /\ page = [u \in Urls |-> 1]
    /\ last = [op |-> "init", cycle |-> NoCycle]
    /\ sentSince = NoFiles
    /\ crashedAfter = NoFiles
    /\ onlyTracks = TRUE
    /\ cmds = 0
    /\ crashes = 0
    /\ changes = 0
    /\ now = StartOfRun
    /\ timers = <<>>
    /\ ranAt = <<>>

(* ------------------------- crash and restart -------------------------- *)
\* The process dies and is started again: every coroutine is gone,
\* user_data is reloaded from user_data.json (line 74), the scheduler
\* reloads its jobs from jobs.sqlite (scheduler.start, line 455).
Restart(jobs2, disk2, torn) ==
    /\ crashes < MaxCrashes
    /\ crashes' = crashes + 1
    /\ jobs' = jobs2
    /\ disk' = disk2
    /\ user_data' = LoadJson(disk2)
    /\ tasks' = <<>>
    /\ crashedAfter' = [t \in Targets |-> crashedAfter[t] \cup sentSince[t]]
    /\ onlyTracks' = (onlyTracks /\ ~torn)
    /\ last' = [op |-> "crash", torn |-> torn,
                undelivered |-> Undelivered(tasks), cycle |-> NoCycle]
    /\ UNCHANGED <<page, sentSince, changes>>

Crash ==
    /\ Restart(jobs, disk, FALSE)
    /\ UNCHANGED cmds
    /\ UNCHANGED tvars

(* ------------------------------- track -------------------------------- *)
\* track, lines 202-232. interval is int(args[2]); nothing validates it.
Track(chat, url, interval, night_mode) ==
    /\ cmds < MaxCmds
    /\ cmds' = cmds + 1
    /\ timers' = Put(timers, JobId(chat, url), AddJob(interval, night_mode, now))
    /\ ranAt' = Put(ranAt, JobId(chat, url), NoFire)
    /\ UNCHANGED now
    /\ LET job_id == JobId(chat, url)
           t == TKey(chat, url)
           \* scheduler.add_job(..., id=job_id, replace_existing=True)
           jobs2 == Put(jobs, job_id,
                        [url |-> url, chat |-> chat, interval |-> interval,
                         night_mode |-> night_mode])
           \* user_data.setdefault(...).setdefault(...)[url] = {...}
           ud2 == Put(user_data, t,
                      [hash |-> "", interval |-> interval,
                       night_mode |-> night_mode, files |-> <<>>])
       IN \E so \in SaveOutcomes :
            IF so = "torn"
            THEN /\ Restart(jobs2, TornFile, TRUE)
            ELSE /\ jobs' = jobs2
                 /\ user_data' = ud2
                 /\ disk' = FileAfterSave(so, ud2)
                 /\ tasks' = MarkStale(tasks, t)
                 /\ sentSince' = [sentSince EXCEPT ![t] = {}]
                 /\ crashedAfter' = [crashedAfter EXCEPT ![t] = {}]
                 /\ onlyTracks' = (onlyTracks /\ so = "ok")
                 /\ last' = [op |-> "track", chat |-> chat, url |-> url,
                             result |-> so, cycle |-> NoCycle]
                 /\ UNCHANGED <<page, crashes, changes>>

\* track with too few arguments or a non-integer interval: IndexError or
\* ValueError, replied as "Error: ...", nothing else happens.
TrackBadArgs(chat) ==
    /\ cmds < MaxCmds
    /\ cmds' = cmds + 1
    /\ last' = [op |-> "track", chat |-> chat, url |-> "",
                result |-> "badargs", cycle |-> NoCycle]
    /\ onlyTracks' = FALSE
    /\ UNCHANGED <<user_data, disk, jobs, tasks, page, sentSince,
                   crashedAfter, crashes, changes>>
    /\ UNCHANGED tvars

(* ------------------------------ untrack ------------------------------- *)
\* untrack, lines 234-258.
Untrack(chat, url) ==
    /\ cmds < MaxCmds
    /\ cmds' = cmds + 1
    /\ IF TKey(chat, url) \in DOMAIN user_data /\ JobId(chat, url) \in DOMAIN jobs
       THEN \* scheduler.remove_job(job_id)
            /\ timers' = Del(timers, JobId(chat, url))
            /\ ranAt' = Del(ranAt, JobId(chat, url))
       ELSE UNCHANGED <<timers, ranAt>>
    /\ UNCHANGED now
    /\ LET job_id == JobId(chat, url)
           t == TKey(chat, url)
           pre == /\ job_id \in DOMAIN jobs
                  /\ t \in DOMAIN user_data
                  /\ t \in DOMAIN LoadJson(disk)
           jobs2 == Del(jobs, job_id)
           ud2 == Del(user_data, t)
           Reply(result) ==
               [op |-> "untrack", chat |-> chat, url |-> url, pre |-> pre,
                result |-> result, cycle |-> NoCycle]
       IN IF t \notin DOMAIN user_data
          THEN \* "Not tracking {url}"
               /\ last' = Reply("not_tracking")
               /\ onlyTracks' = FALSE
               /\ UNCHANGED <<user_data, disk, jobs, tasks, page, sentSince,
                              crashedAfter, crashes, changes>>
          ELSE IF job_id \notin DOMAIN jobs
          THEN \* scheduler.remove_job raises JobLookupError
               /\ last' = Reply("job_lookup_error")
               /\ onlyTracks' = FALSE
               /\ UNCHANGED <<user_data, disk, jobs, tasks, page, sentSince,
                              crashedAfter, crashes, changes>>
          ELSE \E so \in SaveOutcomes :
                 IF so = "torn"
                 THEN /\ Restart(jobs2, TornFile, TRUE)
                 ELSE /\ jobs' = jobs2
                      /\ user_data' = ud2
                      /\ disk' = FileAfterSave(so, ud2)
                      /\ tasks' = MarkStale(tasks, t)
                      /\ sentSince' = [sentSince EXCEPT ![t] = {}]
                      /\ crashedAfter' = [crashedAfter EXCEPT ![t] = {}]
                      /\ onlyTracks' = FALSE
                      /\ last' = Reply(so)
                      /\ UNCHANGED <<page, crashes, changes>>

(* --------------------------- scheduler fire --------------------------- *)
\* The executor runs job id: check_single_website from its first line to
\* its first await (lines 150-174). requests.get, the lookup, the update of
\* tracked and save_json contain no await, so no other coroutine runs in
\* between.
RunJob(id) ==
    /\ id \in DOMAIN jobs
    /\ CanSubmit(id)
    /\ id \in BusyJobs \/ Cardinality(BusyJobs) < MaxBusyJobs
    /\ \E response \in PageResponses :
       LET url == jobs[id].url
           chat == jobs[id].chat
           t == TKey(chat, url)
           body == ResponseBody(response, url)
           current_hash == Sha256(body)
           Poll(outcome, stored, save, cycle) ==
               [op |-> "poll", id |-> id, chat |-> chat, url |-> url,
                outcome |-> outcome, response |-> response,
                fetched |-> current_hash, stored |-> stored,
                wrote |-> save # "none", save |-> save, cycle |-> cycle]
       IN   IF FetchRaises(response)
            THEN \* requests.get or raise_for_status raises: line 183
                 /\ last' = Poll("fetch_error", "none", "none", NoCycle)
                 /\ UNCHANGED <<user_data, disk, jobs, tasks, page, sentSince,
                                crashedAfter, onlyTracks, cmds, crashes,
                                changes>>
            ELSE IF t \notin DOMAIN user_data
            THEN \* line 156-157
                 /\ last' = Poll("not_tracked", "none", "none", NoCycle)
                 /\ UNCHANGED <<user_data, disk, jobs, tasks, page, sentSince,
                                crashedAfter, onlyTracks, cmds, crashes,
                                changes>>
            ELSE IF ~HasChanged(user_data[t].hash, current_hash)
            THEN \* line 160-161
                 /\ last' = Poll("unchanged", user_data[t].hash, "none",
                                 NoCycle)
                 /\ UNCHANGED <<user_data, disk, jobs, tasks, page, sentSince,
                                crashedAfter, onlyTracks, cmds, crashes,
                                changes>>
            ELSE LET new_files == ExtractFiles(body)
                     previous_files == user_data[t].files
                     ud2 == [user_data EXCEPT
                               ![t] = PollUpdate(@, current_hash, new_files)]
                     task0 == [id |-> id, chat |-> chat, url |-> url,
                               hash |-> current_hash,
                               previous |-> previous_files,
                               new_files |-> new_files, i |-> 0,
                               pc |-> "download", summary |-> <<>>,
                               stale |-> FALSE, failed |-> FALSE]
                     next == Continue(task0)
                 IN \E so \in SaveOutcomes :
                    CASE so = "torn" ->
                           /\ Restart(jobs, TornFile, TRUE)
                           /\ UNCHANGED cmds
                      [] so # "torn" /\ SaveRaises(so) ->
                           \* save_json raises: tracked is already updated,
                           \* the exception ends the cycle at line 183
                           /\ user_data' = ud2
                           /\ disk' = FileAfterSave(so, ud2)
                           /\ last' = Poll("save_error", user_data[t].hash,
                                           so, NoCycle)
                           /\ onlyTracks' = FALSE
                           /\ UNCHANGED <<jobs, tasks, page, sentSince,
                                          crashedAfter, cmds, crashes,
                                          changes>>
                      [] OTHER ->
                           /\ user_data' = ud2
                           /\ disk' = FileAfterSave(
                                         so, DataSavedByPoll(user_data, ud2))
                           /\ tasks' = tasks \o next
                           /\ last' = Poll("changed", user_data[t].hash, so,
                                           IF Len(next) = 0 THEN Cyc(task0)
                                           ELSE NoCycle)
                           /\ UNCHANGED <<jobs, page, sentSince, crashedAfter,
                                          onlyTracks, cmds, crashes, changes>>

\* A fire of job id at a time the model leaves open.
Fire(id) ==
    /\ RunJob(id)
    /\ UNCHANGED tvars

\* A fire that arrives while max_instances invocations of the job are in
\* flight: the executor refuses it and the run is skipped.
SkipJob(id) ==
    /\ id \in DOMAIN jobs
    /\ ~CanSubmit(id)
    /\ last' = [op |-> "skip", id |-> id, cycle |-> NoCycle]
    /\ UNCHANGED <<user_data, disk, jobs, tasks, page, sentSince,
                   crashedAfter, onlyTracks, cmds, crashes, changes>>

FireSkipped(id) ==
    /\ SkipJob(id)
    /\ UNCHANGED tvars

Resume(k, next) == SubSeq(tasks, 1, k - 1) \o next \o SubSeq(tasks, k + 1, Len(tasks))

\* await download_file(...) returns (line 174).
DownloadDone(k) ==
    /\ k \in 1..Len(tasks)
    /\ tasks[k].pc = "download"
    /\ LET task == tasks[k]
           f == task.new_files[task.i]
       IN \E response \in Responses :
            LET filename == DownloadFile(response)
                next == IF filename
                        THEN << [task EXCEPT !.pc = "send"] >>
                        ELSE Continue([task EXCEPT !.failed = TRUE])
            IN /\ tasks' = Resume(k, next)
               /\ last' = [op |-> "download", chat |-> task.chat,
                           url |-> task.url, f |-> f, ok |-> filename,
                           hash |-> task.hash, sent |-> task.summary,
                           stale |-> task.stale,
                           cycle |-> IF Len(next) = 0
                                     THEN Cyc([task EXCEPT !.failed = TRUE])
                                     ELSE NoCycle]
               /\ UNCHANGED <<user_data, disk, jobs, page, sentSince,
                              crashedAfter, onlyTracks, cmds, crashes,
                              changes>>
               /\ UNCHANGED tvars

\* await client.send_document(...) returns or raises (lines 176-178).
SendDone(k) ==
    /\ k \in 1..Len(tasks)
    /\ tasks[k].pc = "send"
    /\ LET task == tasks[k]
           f == task.new_files[task.i]
           t == TKey(task.chat, task.url)
       IN \E ok \in BOOLEAN :
            LET sent == [task EXCEPT !.summary = Append(@, f)]
                next == IF ok THEN Continue(sent) ELSE <<>>
            IN /\ tasks' = Resume(k, next)
               /\ sentSince' = IF ok /\ ~task.stale
                               THEN [sentSince EXCEPT ![t] = @ \cup {f}]
                               ELSE sentSince
               /\ last' = [op |-> "send", chat |-> task.chat,
                           url |-> task.url, f |-> f, ok |-> ok,
                           sent |-> task.summary, stale |-> task.stale,
                           cycle |-> IF Len(next) = 0
                                     THEN Cyc([task EXCEPT !.failed = TRUE])
                                     ELSE NoCycle]
               /\ UNCHANGED <<user_data, disk, jobs, page, crashedAfter,
                              onlyTracks, cmds, crashes, changes>>
               /\ UNCHANGED tvars

\* await client.send_message(...) returns or raises (lines 180-182).
SummaryDone(k) ==
    /\ k \in 1..Len(tasks)
    /\ tasks[k].pc = "summary"
    /\ \E ok \in BOOLEAN :
         /\ tasks' = Resume(k, <<>>)
         /\ last' = [op |-> "summary", chat |-> tasks[k].chat,
                     url |-> tasks[k].url, ok |-> ok,
                     files |-> tasks[k].summary, stale |-> tasks[k].stale,
                     cycle |-> Cyc(tasks[k])]
         /\ UNCHANGED <<user_data, disk, jobs, page, sentSince, crashedAfter,
                        onlyTracks, cmds, crashes, changes>>
         /\ UNCHANGED tvars

(* ------------------------------ the site ------------------------------ *)
\* The site at url starts serving another body.
PageChange(url, b) ==
    /\ changes < MaxPageChanges
    /\ changes' = changes + 1
    /\ b # page[url]
    /\ page' = [page EXCEPT ![url] = b]
    /\ sentSince' = [t \in Targets |-> IF t[2] = url THEN {} ELSE sentSince[t]]
    /\ crashedAfter' =
          [t \in Targets |-> IF t[2] = url THEN {} ELSE crashedAfter[t]]
    /\ last' = [op |-> "page", url |-> url, cycle |-> NoCycle]
    /\ UNCHANGED <<user_data, disk, jobs, tasks, onlyTracks, cmds, crashes>>
    /\ UNCHANGED tvars

(* ------------------------------- Next --------------------------------- *)
Next ==
    \/ \E r \in Requests, a \in TrackArgs : Track(r[1], r[2], a[1], a[2])
    \/ \E chat \in Chats : TrackBadArgs(chat)
    \/ \E r \in Requests : Untrack(r[1], r[2])
    \/ \E id \in JobIds : Fire(id)
    \/ \E id \in JobIds : FireSkipped(id)
    \/ \E k \in 1..Cardinality(JobIds) * (max_instances + 1) : DownloadDone(k)
    \/ \E k \in 1..Cardinality(JobIds) * (max_instances + 1) : SendDone(k)
    \/ \E k \in 1..Cardinality(JobIds) * (max_instances + 1) : SummaryDone(k)
    \/ \E url \in Urls, b \in 1..NBodies : PageChange(url, b)
    \/ Crash

Spec == Init /\ [][Next]_vars

(* ----------------------------- timed runs ----------------------------- *)
\* The scheduler wakes up at a job's next_run_time, submits the job to the
\* executor and stores the trigger's next fire time.
RunDue(id) ==
    /\ Due(id)
    /\ RunJob(id)
    /\ timers' = [timers EXCEPT ![id] = AfterRun(@, jobs[id], now)]
    /\ ranAt' = [ranAt EXCEPT ![id] = now]
    /\ UNCHANGED now

\* The same wake-up while max_instances invocations are in flight.
SkipDue(id) ==
    /\ Due(id)
    /\ SkipJob(id)
    /\ timers' = [timers EXCEPT ![id] = AfterRun(@, jobs[id], now)]
    /\ UNCHANGED <<now, ranAt>>

\* A quarter of an hour passes; the scheduler has served the jobs due now.
Tick ==
    /\ now < StartOfRun + MaxTicks * TickMinutes
    /\ \A id \in DOMAIN timers : ~Due(id)
    /\ now' = now + TickMinutes
    /\ last' = [op |-> "tick", cycle |-> NoCycle]
    /\ UNCHANGED <<user_data, disk, jobs, tasks, page, sentSince,
                   crashedAfter, onlyTracks, cmds, crashes, changes, timers,
                   ranAt>>

NextQuiet ==
    \/ \E r \in Requests, a \in QuietArgs : Track(r[1], r[2], a[1], a[2])
    \/ \E id \in JobIds : RunDue(id)
    \/ \E id \in JobIds : SkipDue(id)
    \/ \E k \in 1..Cardinality(JobIds) * (max_instances + 1) : DownloadDone(k)
    \/ \E k \in 1..Cardinality(JobIds) * (max_instances + 1) : SendDone(k)
    \/ \E k \in 1..Cardinality(JobIds) * (max_instances + 1) : SummaryDone(k)
    \/ Tick

SpecQuiet == Init /\ [][NextQuiet]_vars

(* ====================================================================== *)
(*                               Claims                                   *)
(* ====================================================================== *)
Seen(data, t) == Range(data[t].files)
LastTarget == TKey(last.chat, last.url)
PollOps == {"poll", "skip", "download", "send", "summary"}

\* C1: across the steps of poll cycles the stored list of file URLs of a
\* tracked target never loses an element.
C1_SeenNeverShrinks ==
    [][ last'.op \in PollOps =>
          \A t \in DOMAIN user_data \cap DOMAIN user_data' :
              Seen(user_data, t) \subseteq Seen(user_data', t) ]_vars

\* C2: when the download of a new file fails or exceeds the size cap in a
\* cycle, the file's URL is not among the target's stored file URLs, while
\* the target's fingerprint is the hash of the page the cycle fetched.
C2_FailedDownloadNotSeen ==
    ( /\ last.op = "download"
      /\ ~last.ok
      /\ ~last.stale
      /\ last.f \notin Range(last.sent)
      /\ LastTarget \in DOMAIN user_data )
    => /\ last.f \notin Seen(user_data, LastTarget)
       /\ user_data[LastTarget].hash = last.hash

\* C3: when send_document fails for a file, the file's URL is not in the
\* file URLs persisted for the target in user_data.json.
C3_SeenOnlyIfDelivered ==
    ( /\ last.op = "send"
      /\ ~last.ok
      /\ ~last.stale
      /\ last.f \notin Range(last.sent)
      /\ LastTarget \in DOMAIN LoadJson(disk) )
    => last.f \notin Seen(LoadJson(disk), LastTarget)

\* C4: after a crash and restart, no file that a cycle in flight at the
\* crash had still to deliver is among the reloaded file URLs of its target.
C4_CrashBeforeDelivery ==
    last.op = "crash" =>
        \A p \in last.undelivered :
            p[1] \in DOMAIN user_data => p[2] \notin Seen(user_data, p[1])

\* C5: a file that was delivered for a target before a crash is not
\* delivered again for that target while the page content and the
\* registration stay the same.
C5_NoRedeliveryAfterCrash ==
    ~( /\ last.op = "send"
       /\ last.ok
       /\ last.f \in crashedAfter[LastTarget] )

\* C5 witness: after a delivery and a crash, a further poll of the
\* same page content has run for the target.
C5_Witness ==
    /\ last.op = "poll"
    /\ last.outcome = "unchanged"
    /\ crashes > 0
    /\ crashedAfter[LastTarget] # {}

\* C6: a poll that fetches a page whose hash equals the stored fingerprint
\* writes nothing to the store, starts no download or delivery, and leaves
\* fingerprint, file URLs and jobs as they were.
C6_NoChangeNoEffect ==
    [][ (last'.op = "poll" /\ last'.fetched = last'.stored) =>
          /\ ~last'.wrote
          /\ UNCHANGED <<user_data, disk, tasks, jobs, sentSince>> ]_vars

\* C6 witness: a second poll with no upstream change after a poll cycle
\* that delivered a file.
C6_Witness ==
    /\ last.op = "poll"
    /\ last.fetched = last.stored
    /\ sentSince[LastTarget] # {}

\* C7: a cycle on a changed page in which every download and delivery
\* succeeded has delivered exactly the extracted URLs that were not in the
\* previous file URLs, and leaves the fingerprint at the new hash and the
\* file URLs at the previous ones united with the delivered ones.
C7_CycleResult ==
    ( /\ last.cycle # NoCycle
      /\ ~last.cycle[1].stale
      /\ ~last.cycle[1].failed
      /\ TKey(last.cycle[1].chat, last.cycle[1].url) \in DOMAIN user_data )
    => LET c == last.cycle[1]
           t == TKey(c.chat, c.url)
       IN /\ Range(c.summary) = Range(c.new_files) \ Range(c.previous)
          /\ user_data[t].hash = c.hash
          /\ Seen(user_data, t) = Range(c.previous) \cup Range(c.summary)

\* C8: at most one invocation per job and per target is in flight, and
\* while an invocation is in flight the update it made to the target's
\* fingerprint and file URLs has not been overwritten.
C8_SingleFlight ==
    /\ \A id \in JobIds : Instances(id) <= max_instances
    /\ \A t \in Targets :
         Cardinality({k \in 1..Len(tasks) :
                         TKey(tasks[k].chat, tasks[k].url) = t}) <= 1
    /\ \A k \in 1..Len(tasks) :
         LET t == TKey(tasks[k].chat, tasks[k].url)
         IN ~tasks[k].stale =>
              /\ t \in DOMAIN user_data
              /\ user_data[t].hash = tasks[k].hash
              /\ user_data[t].files = tasks[k].new_files

\* C8 witness: a fire arrived while the job's invocation was in flight and
\* was skipped.
C8_Witness ==
    /\ last.op = "skip"
    /\ Instances(last.id) = max_instances

\* C9: after a restart that follows only successful track requests, the
\* jobs are as many as the targets, and each target has a job that polls
\* its URL for its chat with its interval and quiet-hours flag.
C9_RestartRecovery ==
    (last.op = "crash" /\ onlyTracks) =>
        /\ Cardinality(DOMAIN jobs) = Cardinality(DOMAIN user_data)
        /\ \A t \in DOMAIN user_data :
             \E id \in DOMAIN jobs :
                /\ TKey(jobs[id].chat, jobs[id].url) = t
                /\ jobs[id].interval = user_data[t].interval
                /\ jobs[id].night_mode = user_data[t].night_mode

\* C10: after an untrack of a target whose job and store entry were all
\* present, the job, the in-memory entry and the entry on disk are either
\* all gone or all still present.
C10_UntrackAtomic ==
    (last.op = "untrack" /\ last.pre) =>
        LET t == LastTarget
            id == JobId(last.chat, last.url)
        IN \/ /\ id \notin DOMAIN jobs
              /\ t \notin DOMAIN user_data
              /\ t \notin DOMAIN LoadJson(disk)
           \/ /\ id \in DOMAIN jobs
              /\ t \in DOMAIN user_data
              /\ t \in DOMAIN LoadJson(disk)

\* C11: before any restart, after every track or untrack request the jobs
\* and the tracked targets correspond one to one: each tracked target has
\* a job that polls its URL for its chat, and there are as many jobs as
\* targets.
C11_OneJobPerTarget ==
    (last.op \in {"track", "untrack"} /\ crashes = 0) =>
        /\ \A t \in DOMAIN user_data :
             \E id \in DOMAIN jobs : TKey(jobs[id].chat, jobs[id].url) = t
        /\ \A id \in DOMAIN jobs :
             TKey(jobs[id].chat, jobs[id].url) \in DOMAIN user_data
        /\ Cardinality(DOMAIN jobs) = Cardinality(DOMAIN user_data)

\* C12: every stored target and every scheduled job has an interval of at
\* least one minute.
C12_IntervalPositive ==
    /\ \A t \in DOMAIN user_data : user_data[t].interval >= 1
    /\ \A id \in DOMAIN jobs : jobs[id].interval >= 1

\* C13: a poll whose page fetch fails (network error or status >= 400)
\* changes neither the store in memory or on disk, nor the jobs, and starts
\* no download or delivery.
C13_FetchFailureNoEffect ==
    [][ ( /\ last'.op = "poll"
          /\ (~last'.response.net_ok \/ last'.response.status >= 400) )
        => UNCHANGED <<user_data, disk, jobs, tasks, sentSince>> ]_vars

\* C13 witness: the fetch failed with an error status for a target that has
\* a stored fingerprint and whose page now differs from it.
C13_Witness ==
    /\ last.op = "poll"
    /\ last.response.status = 404
    /\ LastTarget \in DOMAIN user_data
    /\ user_data[LastTarget].hash # ""
    /\ user_data[LastTarget].hash # Sha256(Bodies[page[last.url]])

\* C14: a poll whose save_json raises starts no download, delivery or
\* summary: the cycle is over with nothing in flight.
C14_SaveFailureAborts ==
    [][ (last'.op = "poll" /\ last'.save \in {"raise", "raise_torn"}) =>
          /\ tasks' = tasks
          /\ sentSince' = sentSince
          /\ last'.cycle = NoCycle ]_vars

\* C14 witness: save_json raised in a cycle that had found new files.
C14_Witness ==
    /\ last.op = "poll"
    /\ last.save \in {"raise", "raise_torn"}
    /\ LastTarget \in DOMAIN user_data
    /\ user_data[LastTarget].files # <<>>
    /\ last.stored = ""

\* C15: a cycle ends with its aggregate summary message sent exactly when it
\* has delivered one or more files.
C15_SummaryIffDelivered ==
    last.cycle # NoCycle =>
        ((last.cycle[1].summary # <<>>) <=> (last.op = "summary"))

\* The allowed window of quiet hours: the hours 6 to 22 of a day.
InWindow(t) == Hour(t) \in 6..22

\* C16: for a job tracked with quiet hours, no poll runs at a time outside
\* the hours 6 to 22, and when the clock leaves a time inside those hours
\* that is an occurrence of the job's base interval, with no invocation of
\* the job in flight, the job has polled at that time.
C16_QuietHoursGate ==
    [][ now' # now =>
          \A id \in DOMAIN jobs \cap DOMAIN timers :
             jobs[id].night_mode =>
               /\ ranAt[id] # NoFire => InWindow(ranAt[id])
               /\ ( /\ InWindow(now)
                    /\ IntervalFires(timers[id].start_date,
                                     jobs[id].interval, now)
                    /\ Instances(id) = 0 )
                  => ranAt[id] = now ]_vars

\* C17: a track request for a target that is already tracked leaves its
\* fingerprint as it was and its stored file URLs no smaller.
C17_RetrackKeepsState ==
    [][ \A t \in DOMAIN user_data :
          ( /\ last'.op = "track"
            /\ last'.result \in {"ok", "raise", "raise_torn"}
            /\ TKey(last'.chat, last'.url) = t )
          => /\ user_data'[t].hash = user_data[t].hash
             /\ Seen(user_data, t) \subseteq Seen(user_data', t) ]_vars

\* C18: within one cycle no file URL is delivered that the same cycle has
\* already delivered.
C18_DeliveredOncePerCycle ==
    (last.op = "send" /\ last.ok) => last.f \notin Range(last.sent)

\* C19: a file or a summary is delivered for a target only while the target
\* is tracked.
C19_NoDeliveryAfterUntrack ==
    (last.op \in {"send", "summary"} /\ last.ok) =>
        LastTarget \in DOMAIN user_data

\* C20: after a track, untrack or poll has finished, the in-memory store
\* equals what user_data.json holds.
C20_MemoryEqualsDisk ==
    last.op \in {"track", "untrack", "poll"} => user_data = LoadJson(disk)
====
